---- MODULE Spec2Model ----
(***************************************************************************)
(* Model of rjutils (rapidjson_utils.hpp): ParseFile, IsValid,             *)
(* IsValidArray, IsValidObject, Extract and ExtractFromNumericOrString.    *)
(*                                                                         *)
(* Integer widths are scaled down so that every range can be enumerated:   *)
(* the 16/32/64-bit types of the source have Bits16/Bits32/Bits64 bits     *)
(* here, with Bits16 < Bits32 < Bits64 as in the source.  Floating-point   *)
(* values are fixed-point numbers counted in halves (n stands for n/2); a  *)
(* double holds every half, a float only whole numbers.                    *)
(***************************************************************************)
EXTENDS Integers, Sequences, FiniteSets, TLC

\* ------------------------------------------------------------------ bounds
Bits16 == 2
Bits32 == 3
Bits64 == 4
FloatMax == 40          \* largest finite float (whole units)
DoubleMax == 52         \* largest finite double (whole units)
MaxLen == 2             \* longest text stored in a string field
MaxDoubleHalves == 3    \* stored doubles range over -3/2 .. 3/2

\* ----------------------------------------------------------- integer types
RECURSIVE Pow2(_)
Pow2(n) == IF n = 0 THEN 1 ELSE 2 * Pow2(n - 1)

SMin(bits) == 0 - Pow2(bits - 1)
SMax(bits) == Pow2(bits - 1) - 1
UMax(bits) == Pow2(bits) - 1

\* conversion of an integer to an unsigned / signed type of the given width
ToUnsigned(x, bits) == x % Pow2(bits)
ToSigned(x, bits) ==
    LET u == x % Pow2(bits)
    IN  IF u > SMax(bits) THEN u - Pow2(bits) ELSE u

\* static_cast<float>(double): the halves are lost, rounding toward zero
ToFloat(h) == IF h >= 0 THEN h - (h % 2) ELSE 0 - ((0 - h) - ((0 - h) % 2))

\* ------------------------------------------------------------- JSON values
Alphabet == {"1", "5", "a", "-"}
Digits == {"1", "5"}
DigitVal(c) == IF c = "1" THEN 1 ELSE 5

Texts == UNION {[1..n -> Alphabet] : n \in 0..MaxLen}

JNull      == [kind |-> "null",   b |-> FALSE, n |-> 0, s |-> <<>>]
JBool(x)   == [kind |-> "bool",   b |-> x,     n |-> 0, s |-> <<>>]
JInt(i)    == [kind |-> "int",    b |-> FALSE, n |-> i, s |-> <<>>]
JDouble(h) == [kind |-> "double", b |-> FALSE, n |-> h, s |-> <<>>]
JString(t) == [kind |-> "string", b |-> FALSE, n |-> 0, s |-> t]
JArray     == [kind |-> "array",  b |-> FALSE, n |-> 0, s |-> <<>>]
JObject    == [kind |-> "object", b |-> FALSE, n |-> 0, s |-> <<>>]

StoredInts == SMin(Bits64)..UMax(Bits64)

Values ==
    {JNull, JArray, JObject}
        \cup {JBool(x) : x \in BOOLEAN}
        \cup {JInt(i) : i \in StoredInts}
        \cup {JDouble(h) : h \in (0 - MaxDoubleHalves)..MaxDoubleHalves}
        \cup {JString(t) : t \in Texts}

\* rapidjson::Value kind tests and getters, as the library defines them
IsInt(v)    == v.kind = "int" /\ v.n >= SMin(Bits32) /\ v.n <= SMax(Bits32)
IsUint(v)   == v.kind = "int" /\ v.n >= 0 /\ v.n <= UMax(Bits32)
IsInt64(v)  == v.kind = "int" /\ v.n >= SMin(Bits64) /\ v.n <= SMax(Bits64)
IsUint64(v) == v.kind = "int" /\ v.n >= 0 /\ v.n <= UMax(Bits64)
IsBool(v)   == v.kind = "bool"
IsDouble(v) == v.kind = "double"
IsString(v) == v.kind = "string"
IsNumber(v) == v.kind \in {"int", "double"}
IsArray(v)  == v.kind = "array"
IsObject(v) == v.kind = "object"

\* ------------------------------------------------------------------- tags
Keys == {"k", "missing"}

ExactIntTags == {"int32_t", "uint32_t", "int64_t", "uint64_t"}
FloatTags == {"float", "double"}
GenericTags == {"int16_t", "uint16_t"}
NumericTags == ExactIntTags \cup FloatTags
Tags == NumericTags \cup GenericTags \cup {"bool", "string"}

Defaults(tag) ==
    CASE tag \in {"int32_t", "int64_t", "int16_t"} -> {0 - 1, 1}
      [] tag \in {"uint32_t", "uint64_t", "uint16_t"} -> {1, 2}
      [] tag = "bool" -> BOOLEAN
      [] tag = "float" -> {0 - 2, 2}
      [] tag = "double" -> {0 - 2, 1}
      [] tag = "string" -> {<<>>, <<"a">>}

\* the members of an object: a function from the keys it has to their values
HasMember(obj, member) == member \in DOMAIN obj

\* --------------------------------------------------------------- accessors
\* What a call hands back: ret is <<value>> when the call returns and <<>>
\* when an assertion stops the program; read tells whether
\* target_element[member] was evaluated.
Return(v, rd) == [ret |-> <<v>>, read |-> rd]
AssertFails   == [ret |-> <<>>, read |-> TRUE]

\* the unsigned 64-bit arm repeats the signed test
KindMatches_UintAsInt(v, tag) ==
    CASE tag = "int32_t"  -> IsInt(v)
      [] tag = "uint32_t" -> IsUint(v)
      [] tag = "int64_t"  -> IsInt64(v)
      [] tag = "uint64_t" -> IsInt64(v)
      [] tag = "bool"     -> IsBool(v)
      [] tag \in FloatTags -> IsDouble(v)
      [] tag = "string"   -> IsString(v)
      [] tag = "int16_t"  -> IsInt64(v)
      [] tag = "uint16_t" -> IsUint64(v)

\* the if-constexpr chain of IsValid, one arm per tag
KindMatches(v, tag) ==
    CASE tag = "int32_t"  -> IsInt(v)
      [] tag = "uint32_t" -> IsUint(v)
      [] tag = "int64_t"  -> IsInt64(v)
      [] tag = "uint64_t" -> IsUint64(v)
      [] tag = "bool"     -> IsBool(v)
      [] tag \in FloatTags -> IsDouble(v)
      [] tag = "string"   -> IsString(v)
      [] tag = "int16_t"  -> IsInt64(v)
      [] tag = "uint16_t" -> IsUint64(v)

IsValid(obj, member, tag) ==
    IF ~HasMember(obj, member) THEN FALSE
    ELSE KindMatches(obj[member], tag)

\* the array test written as the object test
IsValidArray_AsObject(obj, member) ==
    HasMember(obj, member) /\ IsObject(obj[member])

IsValidArray(obj, member) == HasMember(obj, member) /\ IsArray(obj[member])

IsValidObject(obj, member) == HasMember(obj, member) /\ IsObject(obj[member])

\* the if-constexpr chain of Extract on the value v of a present member;
\* assertions are compiled in unless the build defines NDEBUG
ExtractPresent(v, tag, default_value, NDEBUG) ==
    CASE tag = "int32_t" ->
           IF IsInt(v) THEN Return(v.n, TRUE)
           ELSE IF ~NDEBUG /\ IsNumber(v) THEN AssertFails
           ELSE Return(default_value, TRUE)
      [] tag = "uint32_t" ->
           IF IsUint(v) THEN Return(v.n, TRUE) ELSE Return(default_value, TRUE)
      [] tag = "int64_t" ->
           IF IsInt64(v) THEN Return(v.n, TRUE) ELSE Return(default_value, TRUE)
      [] tag = "uint64_t" ->
           IF IsUint64(v) THEN Return(v.n, TRUE) ELSE Return(default_value, TRUE)
      [] tag = "bool" ->
           IF IsBool(v) THEN Return(v.b, TRUE) ELSE Return(default_value, TRUE)
      [] tag = "float" ->
           IF IsDouble(v) THEN Return(ToFloat(v.n), TRUE)
           ELSE Return(default_value, TRUE)
      [] tag = "double" ->
           IF IsDouble(v) THEN Return(v.n, TRUE) ELSE Return(default_value, TRUE)
      [] tag = "string" ->
           IF IsString(v) THEN Return(v.s, TRUE) ELSE Return(default_value, TRUE)
      [] tag = "int16_t" ->
           IF IsInt64(v) THEN Return(ToSigned(v.n, Bits16), TRUE)
           ELSE Return(default_value, TRUE)
      [] tag = "uint16_t" ->
           IF IsUint64(v) THEN Return(ToUnsigned(v.n, Bits16), TRUE)
           ELSE Return(default_value, TRUE)

\* the member is read before its presence is known
Extract_ReadBeforeCheck(obj, member, tag, default_value, NDEBUG) ==
    IF ~HasMember(obj, member) THEN Return(default_value, TRUE)
    ELSE ExtractPresent(obj[member], tag, default_value, NDEBUG)

\* the assertion is kept in builds that define NDEBUG
Extract_AssertAlways(obj, member, tag, default_value, NDEBUG) ==
    IF ~HasMember(obj, member) THEN Return(default_value, FALSE)
    ELSE ExtractPresent(obj[member], tag, default_value, FALSE)

Extract(obj, member, tag, default_value, NDEBUG) ==
    IF ~HasMember(obj, member) THEN Return(default_value, FALSE)
    ELSE ExtractPresent(obj[member], tag, default_value, NDEBUG)

\* ------------------------------------------------- strtol and its relatives
\* errno holds "0" or the name of an error code.
IsDigit(c) == c \in Digits

RECURSIVE DigitPrefix(_)
DigitPrefix(t) ==
    IF t = <<>> \/ ~IsDigit(Head(t)) THEN <<>>
    ELSE <<Head(t)>> \o DigitPrefix(Tail(t))

RECURSIVE Magnitude(_)
Magnitude(ds) ==
    IF ds = <<>> THEN 0
    ELSE 10 * Magnitude(SubSeq(ds, 1, Len(ds) - 1)) + DigitVal(ds[Len(ds)])

Negative(t) == t # <<>> /\ Head(t) = "-"
Unsigned(t) == IF Negative(t) THEN Tail(t) ELSE t

\* with no digits to convert the functions return 0; whether they also set
\* errno to EINVAL is left to the C library
NoConversion(errno, EINVAL_ON_NOCONV) ==
    [val |-> 0, errno |-> IF EINVAL_ON_NOCONV THEN "EINVAL" ELSE errno]

\* strtol / strtoll into a signed type of the given width
StrToSigned(t, bits, errno, EINVAL_ON_NOCONV) ==
    LET ds == DigitPrefix(Unsigned(t))
        x  == IF Negative(t) THEN 0 - Magnitude(ds) ELSE Magnitude(ds)
    IN  IF ds = <<>> THEN NoConversion(errno, EINVAL_ON_NOCONV)
        ELSE IF x > SMax(bits) THEN [val |-> SMax(bits), errno |-> "ERANGE"]
        ELSE IF x < SMin(bits) THEN [val |-> SMin(bits), errno |-> "ERANGE"]
        ELSE [val |-> x, errno |-> errno]

\* strtoul / strtoull into an unsigned type of the given width; a leading
\* minus sign negates the converted value in that type
StrToUnsigned(t, bits, errno, EINVAL_ON_NOCONV) ==
    LET ds == DigitPrefix(Unsigned(t))
        m  == Magnitude(ds)
    IN  IF ds = <<>> THEN NoConversion(errno, EINVAL_ON_NOCONV)
        ELSE IF m > UMax(bits) THEN [val |-> UMax(bits), errno |-> "ERANGE"]
        ELSE IF Negative(t) THEN [val |-> ToUnsigned(0 - m, bits), errno |-> errno]
        ELSE [val |-> m, errno |-> errno]

\* strtof / strtod on a decimal literal without fraction or exponent (the
\* alphabet has neither); the value is in halves, beyond max it is +-HUGE_VAL
StrToFloating(t, max, errno, EINVAL_ON_NOCONV) ==
    LET ds == DigitPrefix(Unsigned(t))
        m  == Magnitude(ds)
        h  == IF m > max THEN 2 * (max + 1) ELSE 2 * m
    IN  IF ds = <<>> THEN NoConversion(errno, EINVAL_ON_NOCONV)
        ELSE [val |-> IF Negative(t) THEN 0 - h ELSE h,
              errno |-> IF m > max THEN "ERANGE" ELSE errno]

\* ----------------------------------------------- ExtractFromNumericOrString
WithErrno(r, e) == [ret |-> r.ret, read |-> r.read, errno |-> e]

\* the tail every text branch shares: assert(errno != ERANGE);
\* if (errno != 0) return default_value; return value;
Converted(value, e, default_value, NDEBUG) ==
    IF ~NDEBUG /\ e = "ERANGE" THEN WithErrno(AssertFails, e)
    ELSE IF e # "0" THEN WithErrno(Return(default_value, TRUE), e)
    ELSE WithErrno(Return(value, TRUE), e)

\* LongBits is the width of long: Bits64 on LP64 targets, Bits32 on LLP64
ExtractFromNumericOrString(obj, member, tag, default_value, errno, NDEBUG, LongBits, EINVAL_ON_NOCONV) ==
    IF ~HasMember(obj, member)
    THEN WithErrno(Return(default_value, FALSE), errno)
    ELSE LET v == obj[member] IN
      IF IsNumber(v)
      THEN WithErrno(Extract(obj, member, tag, default_value, NDEBUG), errno)
      ELSE IF IsString(v)
      THEN CASE tag = "int32_t" ->
                  LET r == StrToSigned(v.s, LongBits, errno, EINVAL_ON_NOCONV)
                  IN  Converted(ToSigned(r.val, Bits32), r.errno,
                                default_value, NDEBUG)
             [] tag = "uint32_t" ->
                  LET r == StrToUnsigned(v.s, LongBits, errno, EINVAL_ON_NOCONV)
                  IN  Converted(ToUnsigned(r.val, Bits32), r.errno,
                                default_value, NDEBUG)
             [] tag = "int64_t" ->
                  LET r == StrToSigned(v.s, Bits64, errno, EINVAL_ON_NOCONV)
                  IN  Converted(r.val, r.errno, default_value, NDEBUG)
             [] tag = "uint64_t" ->
                  LET r == StrToUnsigned(v.s, Bits64, errno, EINVAL_ON_NOCONV)
                  IN  Converted(r.val, r.errno, default_value, NDEBUG)
             [] tag = "float" ->
                  LET r == StrToFloating(v.s, FloatMax, errno, EINVAL_ON_NOCONV)
                  IN  Converted(r.val, r.errno, default_value, NDEBUG)
             [] tag = "double" ->
                  LET r == StrToFloating(v.s, DoubleMax, errno, EINVAL_ON_NOCONV)
                  IN  Converted(r.val, r.errno, default_value, NDEBUG)
             [] OTHER -> WithErrno(Return(default_value, TRUE), errno)
      ELSE WithErrno(Return(default_value, TRUE), errno)

\* ------------------------------------------------------------------- state
VARIABLES
    build,        \* how the header was compiled and against which C library
    root,         \* out_document: "null" as constructed, "object", "error"
    members,      \* the members of out_document when it is an object
    errno,        \* the thread's errno
    aborted,      \* an assertion has stopped the program
    openFiles,    \* FILE handles opened and not yet closed
    heldBuffers,  \* read buffers allocated and not yet freed
    pf,           \* the last ParseFile call: did fopen succeed, what it returned
    last          \* the last accessor call: its arguments and what it gave

vars == <<build, root, members, errno, aborted, openFiles, heldBuffers,
          pf, last>>

Builds == [NDEBUG : BOOLEAN, LongBits : {Bits32, Bits64},
           EINVAL_ON_NOCONV : BOOLEAN]

StoredKeys == {"k"}
Objects == UNION {[D -> Values] : D \in SUBSET StoredKeys}
NoMembers == [m \in {} |-> JNull]

NoCall == [op |-> "none", member |-> "", tag |-> "", default_value |-> <<>>,
           ret |-> <<>>, read |-> FALSE]

Init ==
    /\ build \in Builds
    /\ root = "null"
    /\ members = NoMembers
    /\ errno = "0"
    /\ aborted = FALSE
    /\ openFiles = 0
    /\ heldBuffers = 0
    /\ pf = [called |-> FALSE, opened |-> FALSE, ret |-> <<>>]
    /\ last = NoCall

\* ParseFile(file_name, out_document), called once on the document as
\* constructed.  fopenOk and mallocOk say whether the two acquisitions
\* succeed, wellFormed whether the file parses, obj is the object the file
\* describes.
ParseFile(fopenOk, mallocOk, wellFormed, obj) ==
    /\ ~aborted
    /\ ~pf.called
    /\ UNCHANGED <<build, last>>
    /\ IF ~fopenOk
       THEN /\ errno' = "ENOENT"
            /\ aborted' = ~build.NDEBUG
            /\ pf' = [called |-> TRUE, opened |-> FALSE,
                      ret |-> IF build.NDEBUG THEN <<FALSE>> ELSE <<>>]
            /\ UNCHANGED <<root, members, openFiles, heldBuffers>>
       ELSE IF ~mallocOk
       THEN /\ errno' = "ENOMEM"
            /\ openFiles' = openFiles + 1
            /\ pf' = [called |-> TRUE, opened |-> TRUE, ret |-> <<FALSE>>]
            /\ UNCHANGED <<root, members, aborted, heldBuffers>>
       ELSE /\ root' = IF wellFormed THEN "object" ELSE "error"
            /\ members' = IF wellFormed THEN obj ELSE NoMembers
            /\ openFiles' = (openFiles + 1) - 1
            /\ heldBuffers' = (heldBuffers + 1) - 1
            /\ pf' = [called |-> TRUE, opened |-> TRUE, ret |-> <<wellFormed>>]
            /\ UNCHANGED <<errno, aborted>>

\* the accessors take an object; no call follows a failed assertion
CanCall == ~aborted /\ root = "object"

Unchanged == UNCHANGED <<build, root, members, openFiles, heldBuffers, pf>>

CallIsValid(member, tag) ==
    /\ CanCall
    /\ last' = [op |-> "IsValid", member |-> member, tag |-> tag,
                default_value |-> <<>>,
                ret |-> <<IsValid(members, member, tag)>>,
                read |-> HasMember(members, member)]
    /\ UNCHANGED <<errno, aborted>>
    /\ Unchanged

CallIsValidArray(member) ==
    /\ CanCall
    /\ last' = [op |-> "IsValidArray", member |-> member, tag |-> "",
                default_value |-> <<>>,
                ret |-> <<IsValidArray(members, member)>>,
                read |-> HasMember(members, member)]
    /\ UNCHANGED <<errno, aborted>>
    /\ Unchanged

CallIsValidObject(member) ==
    /\ CanCall
    /\ last' = [op |-> "IsValidObject", member |-> member, tag |-> "",
                default_value |-> <<>>,
                ret |-> <<IsValidObject(members, member)>>,
                read |-> HasMember(members, member)]
    /\ UNCHANGED <<errno, aborted>>
    /\ Unchanged

CallExtract(member, tag, default_value) ==
    /\ CanCall
    /\ LET r == Extract(members, member, tag, default_value, build.NDEBUG)
       IN  /\ last' = [op |-> "Extract", member |-> member, tag |-> tag,
                       default_value |-> <<default_value>>,
                       ret |-> r.ret, read |-> r.read]
           /\ aborted' = (r.ret = <<>>)
    /\ UNCHANGED errno
    /\ Unchanged

CallExtractFromNumericOrString(member, tag, default_value) ==
    /\ CanCall
    /\ LET r == ExtractFromNumericOrString(members, member, tag, default_value,
                    errno, build.NDEBUG, build.LongBits, build.EINVAL_ON_NOCONV)
       IN  /\ last' = [op |-> "ExtractFromNumericOrString", member |-> member,
                       tag |-> tag, default_value |-> <<default_value>>,
                       ret |-> r.ret, read |-> r.read]
           /\ errno' = r.errno
           /\ aborted' = (r.ret = <<>>)
    /\ Unchanged

Next ==
    \/ \E fopenOk \in BOOLEAN, mallocOk \in BOOLEAN, wellFormed \in BOOLEAN,
          obj \in Objects :
          ParseFile(fopenOk, mallocOk, wellFormed, obj)
    \/ \E member \in Keys, tag \in Tags : CallIsValid(member, tag)
    \/ \E member \in Keys : CallIsValidArray(member)
    \/ \E member \in Keys : CallIsValidObject(member)
    \/ \E member \in Keys, tag \in Tags :
          \E default_value \in Defaults(tag) :
             CallExtract(member, tag, default_value)
    \/ \E member \in Keys, tag \in NumericTags :
          \E default_value \in Defaults(tag) :
             CallExtractFromNumericOrString(member, tag, default_value)

Spec == Init /\ [][Next]_vars

\* ------------------------------------------------------------------ claims
Present == HasMember(members, last.member)
Stored == members[last.member]
Extracting == last.op \in {"Extract", "ExtractFromNumericOrString"}

\* the kind policy of a tag, read off the stored value alone
IntegerIn(v, lo, hi) == v.kind = "int" /\ v.n >= lo /\ v.n <= hi
Policy(v, tag) ==
    CASE tag = "int32_t"  -> IntegerIn(v, SMin(Bits32), SMax(Bits32))
      [] tag = "uint32_t" -> IntegerIn(v, 0, UMax(Bits32))
      [] tag \in {"int64_t", "int16_t"}   -> IntegerIn(v, SMin(Bits64), SMax(Bits64))
      [] tag \in {"uint64_t", "uint16_t"} -> IntegerIn(v, 0, UMax(Bits64))
      [] tag = "bool"     -> v.kind = "bool"
      [] tag \in FloatTags -> v.kind = "double"
      [] tag = "string"   -> v.kind = "string"

\* a number that a floating-point value can hold: one stored as floating
\* point, or an integer within the floating-point range
FloatRepresentable(v) ==
    \/ v.kind = "double"
    \/ v.kind = "int" /\ v.n >= 0 - DoubleMax /\ v.n <= DoubleMax

PolicyAsClaimed(v, tag) ==
    IF tag \in FloatTags THEN FloatRepresentable(v) ELSE Policy(v, tag)

\* the stored value as a value of the tag's type
StoredAs(v, tag) ==
    CASE tag = "bool" -> v.b
      [] tag = "string" -> v.s
      [] OTHER -> v.n

\* the base-10 value of the numeric prefix of a text, and a tag's range
HasDigits(t) == DigitPrefix(Unsigned(t)) # <<>>
TextValue(t) ==
    IF Negative(t) THEN 0 - Magnitude(DigitPrefix(Unsigned(t)))
    ELSE Magnitude(DigitPrefix(Unsigned(t)))
TagMax(tag) ==
    CASE tag = "int32_t" -> SMax(Bits32)
      [] tag = "uint32_t" -> UMax(Bits32)
      [] tag = "int64_t" -> SMax(Bits64)
      [] tag = "uint64_t" -> UMax(Bits64)
      [] tag = "float" -> FloatMax
      [] tag = "double" -> DoubleMax
TagMin(tag) ==
    CASE tag = "int32_t" -> SMin(Bits32)
      [] tag = "int64_t" -> SMin(Bits64)
      [] tag \in {"uint32_t", "uint64_t"} -> 0
      [] tag = "float" -> 0 - FloatMax
      [] tag = "double" -> 0 - DoubleMax
\* the number x as a value of the tag's type (floating values are in halves)
NumberAs(x, tag) == IF tag \in FloatTags THEN 2 * x ELSE x

TextCall ==
    /\ last.op = "ExtractFromNumericOrString"
    /\ Present
    /\ Stored.kind = "string"

\* C1: when the container does not have the key, Extract and
\* ExtractFromNumericOrString return the default, for every tag and default,
\* and the field is not read.
C1_AbsentKeyGivesDefault ==
    (Extracting /\ ~Present) =>
        (last.ret = last.default_value /\ ~last.read)

C1_Witness ==
    /\ last.op = "ExtractFromNumericOrString"
    /\ last.member = "k"
    /\ ~Present
    /\ last.tag = "int32_t"
    /\ last.ret = <<0 - 1>>

\* C2: when the stored kind matches the tag's policy, Extract returns exactly
\* the stored value for every integer, boolean and string tag, the generic
\* integral tags included.
C2_MatchingKindGivesStoredValue ==
    (last.op = "Extract" /\ Present /\ last.tag \notin FloatTags
        /\ Policy(Stored, last.tag)) =>
        last.ret = <<StoredAs(Stored, last.tag)>>

\* C3 as stated: IsValid returns true iff the key is present and the stored
\* kind matches the tag's policy, where a floating-point tag is matched by
\* any floating-point-representable numeric.
C3_IsValidIffPolicyAsClaimed ==
    last.op = "IsValid" =>
        last.ret = <<Present /\ PolicyAsClaimed(Stored, last.tag)>>

\* C3 amended: IsValid returns true iff the key is present and the stored
\* kind matches the tag's policy, where a floating-point tag is matched only
\* by a number stored in floating-point form (a stored integer does not
\* match it).
C3_IsValidIffPolicy ==
    last.op = "IsValid" =>
        last.ret = <<Present /\ Policy(Stored, last.tag)>>

C3_Witness ==
    /\ last.op = "IsValid"
    /\ last.tag = "double"
    /\ Present
    /\ Stored = JInt(1)
    /\ last.ret = <<FALSE>>

\* C4 as stated: when the key is present and the stored kind does not match
\* the tag's policy, Extract completes and returns the default, in every
\* build.
C4_MismatchGivesDefault ==
    (last.op = "Extract" /\ Present /\ ~Policy(Stored, last.tag)) =>
        last.ret = last.default_value

\* the assertion of the signed 32-bit arm: a number that is no 32-bit integer
AssertedCase ==
    ~build.NDEBUG /\ last.tag = "int32_t" /\ Stored.kind \in {"int", "double"}

\* C4 amended: when the key is present and the stored kind does not match the
\* tag's policy, Extract completes and returns the default, except in a build
\* with assertions enabled for the signed 32-bit tag on a stored number: there
\* the assertion stops the program and nothing is returned.
C4_MismatchGivesDefaultUnlessAsserted ==
    (last.op = "Extract" /\ Present /\ ~Policy(Stored, last.tag)) =>
        IF AssertedCase THEN last.ret = <<>> /\ aborted
        ELSE last.ret = last.default_value /\ ~aborted

C4_Witness ==
    /\ last.op = "Extract"
    /\ last.tag = "int32_t"
    /\ build.NDEBUG
    /\ Present
    /\ Stored = JInt(SMax(Bits32) + 1)
    /\ last.ret = <<1>>

\* C5: for every numeric tag, text whose base-10 value lies beyond the tag's
\* range never makes ExtractFromNumericOrString return a truncated or wrapped
\* value: what the call returns is the default.  (A call that the overflow
\* assertion stops returns nothing and is not counted against the claim
\* here.)
C5_OverflowGivesDefault ==
    (TextCall /\ HasDigits(Stored.s) /\ last.ret # <<>>
        /\ (TextValue(Stored.s) > TagMax(last.tag)
            \/ (TextValue(Stored.s) < TagMin(last.tag)
                /\ last.tag \notin {"uint32_t", "uint64_t"}))) =>
        last.ret = last.default_value

\* C6: for every numeric tag and every default, text with no digits to parse
\* makes ExtractFromNumericOrString return the default.
C6_NoDigitsGivesDefault ==
    (TextCall /\ ~HasDigits(Stored.s)) => last.ret = last.default_value

\* C7: for every numeric tag, text that starts with a base-10 literal whose
\* value fits the tag makes ExtractFromNumericOrString return that value,
\* whatever follows the literal.
C7_NumericPrefixGivesValue ==
    (TextCall /\ HasDigits(Stored.s)
        /\ TextValue(Stored.s) >= TagMin(last.tag)
        /\ TextValue(Stored.s) <= TagMax(last.tag)) =>
        last.ret = <<NumberAs(TextValue(Stored.s), last.tag)>>

\* what the last call returns when it is the first call of the program
AsFirstCall ==
    CASE last.op = "IsValid" -> <<IsValid(members, last.member, last.tag)>>
      [] last.op = "IsValidArray" -> <<IsValidArray(members, last.member)>>
      [] last.op = "IsValidObject" -> <<IsValidObject(members, last.member)>>
      [] last.op = "Extract" ->
           Extract(members, last.member, last.tag, last.default_value[1],
                   build.NDEBUG).ret
      [] last.op = "ExtractFromNumericOrString" ->
           ExtractFromNumericOrString(members, last.member, last.tag,
               last.default_value[1], "0", build.NDEBUG, build.LongBits,
               build.EINVAL_ON_NOCONV).ret

\* C8: a call returns what the same call returns as the first call of the
\* program, whichever calls ran before it.
C8_ResultIndependentOfEarlierCalls ==
    last.op # "none" => last.ret = AsFirstCall

\* C9: IsValidArray is true iff the key is present with an array value,
\* IsValidObject iff it is present with an object value.
C9_ArrayObjectIffKind ==
    /\ last.op = "IsValidArray" =>
           last.ret = <<Present /\ Stored.kind = "array">>
    /\ last.op = "IsValidObject" =>
           last.ret = <<Present /\ Stored.kind = "object">>

C9_Witness ==
    /\ last.op = "IsValidArray"
    /\ Present
    /\ Stored.kind = "array"
    /\ last.ret = <<TRUE>>

\* C10: once ParseFile has opened the file, the handle is closed and the
\* read buffer freed when it returns, whatever it returns.
C10_ParseFileReleasesEverything ==
    (pf.opened /\ pf.ret # <<>>) => (openFiles = 0 /\ heldBuffers = 0)

====
